---- MODULE Spec2Model ----
(***************************************************************************)
(* The blog blueprint of flaskr (src/flaskr/blog.py): the five entry       *)
(* points index, get_post, create, update and delete, acting on the post   *)
(* table of the database and answering one request at a time.              *)
(*                                                                         *)
(* In the source every one of the five bodies is the single statement      *)
(* `pass`: the function returns None and touches nothing.  The model       *)
(* translates exactly that.  The documented behaviour (the docstrings and  *)
(* the specification) is stated in the claims' formulas, further down, and *)
(* checked against these bodies.                                           *)
(*                                                                         *)
(* The post table lives in the database, outside the blueprint, and        *)
(* outlives the process: the blueprint starts on whatever well-formed      *)
(* table the database holds (unique ids, existing authors, non-empty       *)
(* titles), so Init draws the table from all such tables within bounds.    *)
(***************************************************************************)
EXTENDS Integers, Sequences, FiniteSets

\* ------------------------------------------------------------------ bounds
MaxUser == 2
MaxPostId == 2

NoUser == 0                      \* g.user is None: an anonymous requester
Users == 1..MaxUser
Requesters == Users \cup {NoUser}
PostIds == 1..MaxPostId
Titles == {"", "a", "b"}         \* request.form["title"]; "" is the empty title
Bodies == {"", "x"}              \* request.form["body"]
NonEmptyTitles == Titles \ {""}

VARIABLES
    posts,       \* the post table: a set of rows [id, author_id, created, title, body]
    before,      \* the post table as it was when the last request arrived
    request,     \* the last request: [op, user, id, title, body, check_author]
    response     \* what the last request's function returned: [kind, rows]

vars == <<posts, before, request, response>>

\* ------------------------------------------------------------- the store
\* What a row holds besides its id.  No function of the blueprint reads a
\* body, so the tables to start from vary the author and the title only.
Details == [author_id : Users, title : NonEmptyTitles, body : {""}]

\* The row with id i: ids are assigned in the order of creation (AUTOINCREMENT
\* beside DEFAULT CURRENT_TIMESTAMP), so created follows the id.
Row(i, d) ==
    [id |-> i, author_id |-> d.author_id, created |-> i,
     title |-> d.title, body |-> d.body]

\* A table the database can hold: ids are unique (the primary key), authors
\* exist, titles are not empty (NOT NULL, and validated on the way in).
WellFormed(store) ==
    /\ \A p, q \in store : p.id = q.id => p = q
    /\ \A p \in store :
          /\ p.id \in PostIds /\ p.author_id \in Users /\ p.created = p.id
          /\ p.title \in NonEmptyTitles /\ p.body \in Bodies

Stores ==
    UNION {{{Row(i, f[i]) : i \in S} : f \in [S -> Details]} : S \in SUBSET PostIds}

Ids(store) == {p.id : p \in store}

\* -------------------------------------------------------------- responses
\* A Python function whose body is `pass` returns None.
NoResponse == [kind |-> "None", rows |-> <<>>]
\* The login gate turned the requester away; the view was not called.
LoginRequired == [kind |-> "LoginRequired", rows |-> <<>>]

Outcome(store, result) == [store |-> store, result |-> result]

\* ---------------------------------------------------------------- the code
\* blog.py:18-21  def index(): pass
index(store) == Outcome(store, NoResponse)

\* blog.py:23-35  def get_post(id, check_author=True): pass
get_post(store, user, id, check_author) == Outcome(store, NoResponse)

\* blog.py:40-42  def create(): pass
create(store, user, title, body) == Outcome(store, NoResponse)

\* A slip an implementation of update could make: the UPDATE statement also
\* writes the requester into author_id.
update_reassigns_author(store, user, id, title, body) ==
    Outcome({IF p.id = id THEN [p EXCEPT !.author_id = user] ELSE p : p \in store},
            NoResponse)

\* blog.py:47-49  def update(id): pass
update(store, user, id, title, body) == Outcome(store, NoResponse)

\* A slip an implementation of delete could make: the DELETE statement runs
\* before the ownership check, which then aborts with 403 or 404.
delete_before_check(store, user, id) ==
    Outcome({p \in store : p.id # id},
            IF id \notin Ids(store) THEN [kind |-> "NotFound", rows |-> <<>>]
            ELSE IF \E p \in store : p.id = id /\ p.author_id # user
                 THEN [kind |-> "Forbidden", rows |-> <<>>]
                 ELSE [kind |-> "Redirect", rows |-> <<>>])

\* blog.py:54-60  def delete(id): pass
delete(store, user, id) == Outcome(store, NoResponse)

\* blog.py:10, 39, 46, 53  @login_required (flaskr.auth, not part of the
\* sources at hand): the external gate of the specification, section 4.3.  An
\* anonymous requester never reaches the view.
login_required(store, user, viewOutcome) ==
    IF user = NoUser THEN Outcome(store, LoginRequired) ELSE viewOutcome

\* ------------------------------------------------------------ the requests
Req(op, user, id, title, body, check_author) ==
    [op |-> op, user |-> user, id |-> id, title |-> title, body |-> body,
     check_author |-> check_author]

Serve(req, outcome) ==
    /\ request' = req
    /\ before' = posts
    /\ posts' = outcome.store
    /\ response' = outcome.result

\* GET /
Index ==
    \E u \in Requesters :
        Serve(Req("index", u, 0, "", "", FALSE), index(posts))

\* a call of get_post(id, check_author) with g.user = u
GetPost ==
    \E u \in Requesters, i \in PostIds, ca \in BOOLEAN :
        Serve(Req("get_post", u, i, "", "", ca), get_post(posts, u, i, ca))

\* POST /create
Create ==
    \E u \in Requesters, t \in Titles, b \in Bodies :
        Serve(Req("create", u, 0, t, b, FALSE),
              login_required(posts, u, create(posts, u, t, b)))

\* POST /<id>/update
Update ==
    \E u \in Requesters, i \in PostIds, t \in Titles, b \in Bodies :
        Serve(Req("update", u, i, t, b, TRUE),
              login_required(posts, u, update(posts, u, i, t, b)))

\* POST /<id>/delete
Delete ==
    \E u \in Requesters, i \in PostIds :
        Serve(Req("delete", u, i, "", "", TRUE),
              login_required(posts, u, delete(posts, u, i)))

Init ==
    /\ posts \in Stores
    /\ before = posts
    /\ request = Req("none", NoUser, 0, "", "", FALSE)
    /\ response = NoResponse

Next == Index \/ GetPost \/ Create \/ Update \/ Delete

Spec == Init /\ [][Next]_vars

\* ======================================================================
\* The documented behaviour, in the vocabulary of the responses.
\* ======================================================================
username(u) == <<"user", u>>
Joined(p) == [post |-> p, username |-> username(p.author_id)]
PostWithId(store, i) == CHOOSE p \in store : p.id = i

Kind(k) == response.kind = k
Authenticated == request.user \in Users
\* The request names a post the store held when the request arrived.
Targets(p) == p \in before /\ p.id = request.id
ByAuthor == \E p \in before : Targets(p) /\ p.author_id = request.user
ByOther == Authenticated /\ \E p \in before : Targets(p) /\ p.author_id # request.user

\* C1: an update or a delete of a post by an authenticated user who is not its
\* author fails with Forbidden (403).
C1_NonAuthorForbidden ==
    (request.op \in {"update", "delete"} /\ ByOther) => Kind("Forbidden")

\* C2: an update or a delete of an id the store does not hold fails with
\* NotFound (404), whoever asks, authenticated or not.
C2_MissingNotFound ==
    (request.op \in {"update", "delete"} /\ request.id \notin Ids(before))
        => Kind("NotFound")

\* C3: an update of a post by its author with a non-empty title sets the
\* post's title and body to the submitted values, keeps its id, author_id and
\* created, and leaves every other post as it was.
C3_UpdateWrites ==
    (request.op = "update" /\ ByAuthor /\ request.title # "")
        => LET p == PostWithId(before, request.id)
           IN  posts = (before \ {p})
                         \cup {[p EXCEPT !.title = request.title,
                                         !.body = request.body]}

\* C4: after a delete of a post by its author the post is gone: the store
\* holds no row of that id, a following get_post, update or delete of the id
\* yields NotFound, and a following index does not list it.
C4_DeleteRemoves ==
    (request.op = "delete" /\ ByAuthor)
        => /\ request.id \notin Ids(posts)
           /\ \A u \in Requesters, ca \in BOOLEAN :
                 get_post(posts, u, request.id, ca).result.kind = "NotFound"
           /\ \A u \in Users, t \in Titles, b \in Bodies :
                 update(posts, u, request.id, t, b).result.kind = "NotFound"
           /\ \A u \in Users :
                 delete(posts, u, request.id).result.kind = "NotFound"
           /\ LET rows == index(posts).result.rows
              IN  \A k \in 1..Len(rows) : rows[k].post.id # request.id

\* C5: a create with an empty title, and an update by the author with an empty
\* title, reports a validation error and writes nothing.
C5_EmptyTitleRejected ==
    (/\ request.title = ""
     /\ \/ request.op = "create" /\ Authenticated
        \/ request.op = "update" /\ ByAuthor)
        => Kind("Invalid") /\ posts = before

\* C6: a create by an authenticated user with a non-empty title adds exactly
\* one post, of that author, title and body, and an index made right after it
\* returns that post first.
C6_CreateThenIndex ==
    (request.op = "create" /\ Authenticated /\ request.title # "")
        => \E n \in posts \ before :
              /\ posts = before \cup {n}
              /\ n.id \notin Ids(before)
              /\ n.author_id = request.user
              /\ n.title = request.title
              /\ n.body = request.body
              /\ LET r == index(posts).result
                 IN  /\ r.kind = "Rendered"
                     /\ Len(r.rows) >= 1
                     /\ r.rows[1] = Joined(n)

\* C7: get_post fails with NotFound when no post has the id; otherwise with
\* Forbidden when check_author is set and the requester is not the author;
\* otherwise it returns the post with its author's name.
C7_GetPostDecides ==
    request.op = "get_post"
        => IF request.id \notin Ids(before) THEN Kind("NotFound")
           ELSE LET p == PostWithId(before, request.id)
                IN  IF request.check_author /\ request.user # p.author_id
                    THEN Kind("Forbidden")
                    ELSE Kind("Post") /\ response.rows = <<Joined(p)>>

\* C8: every post has exactly one author, the user who created it, and no
\* request changes the author_id or the id of a post: a row whose id the
\* store already held keeps its author, and a row of a new id comes from a
\* create and carries its requester.
C8_AuthorNeverReassigned ==
    /\ \A p, q \in posts : p.id = q.id => p.author_id = q.author_id
    /\ \A p \in posts : p.author_id \in Users
    /\ \A p \in posts :
          IF p.id \in Ids(before)
          THEN \A q \in before : q.id = p.id => q.author_id = p.author_id
          ELSE request.op = "create" /\ p.author_id = request.user

\* An authenticated user who is not the author has asked to update a post
\* the store holds.
C8_Witness ==
    request.op = "update" /\ ByOther /\ request.title # ""

\* C9: index returns every post of the store exactly once, with its author's
\* name, most recent first, and changes nothing.
C9_IndexListsAll ==
    request.op = "index"
        => /\ Kind("Rendered")
           /\ Len(response.rows) = Cardinality(before)
           /\ {response.rows[k] : k \in 1..Len(response.rows)}
                 = {Joined(p) : p \in before}
           /\ \A j, k \in 1..Len(response.rows) :
                 j < k => response.rows[j].post.created
                            >= response.rows[k].post.created
           /\ posts = before

\* C10: the store is the same after as before an update or delete rejected
\* with NotFound or Forbidden, any get_post, and any create, update or delete
\* by an anonymous requester.
C10_RejectedWritesNothing ==
    (\/ request.op \in {"update", "delete"}
          /\ (Kind("NotFound") \/ Kind("Forbidden"))
     \/ request.op = "get_post"
     \/ request.op \in {"create", "update", "delete"} /\ request.user = NoUser)
        => posts = before

\* An anonymous requester has asked to delete a post the store holds.
C10_Witness ==
    /\ request.op = "delete" /\ request.user = NoUser
    /\ \E p \in before : Targets(p)
====
